---- MODULE Spec2Model ----
(***************************************************************************)
(* Digital-colonialism agent-based model (model.py, agent.py).             *)
(*                                                                         *)
(* Units.  Python floats are modelled by exact fixed-point integers:       *)
(*   wellbeing, infrastructure_strength, digital_access_score,             *)
(*   cultural_fit, adoption noise, crisis damage, decline   : tenths       *)
(*   cultural_resilience, adoption_threshold                : hundredths   *)
(*   tech_dominance (model parameter and Deployer field)    : 1/DomScale   *)
(* Random draws of the seeded stream are inputs of the step operators: the *)
(* specification Spec draws them from small sets, SpecDet derives them     *)
(* from the seeded generator state.                                        *)
(***************************************************************************)
EXTENDS Integers, Sequences, FiniteSets, TLC

VARIABLES agents, tech_agent, network, params, pending, steps, status,
          pre_step_states, rng, twin

vars == <<agents, tech_agent, network, params, pending, steps, status,
          pre_step_states, rng, twin>>

\* ------------------------------------------------------------------ bounds
MaxRounds == 4
MaxSeed == 2
MaxCommunities == 7
AdoptionRounds == 2
AbsorbRounds == 32
FloorRounds == 46

\* ------------------------------------------------------- program constants
InitialWellbeing == 1000
ban_threshold == 650
ban_window == 3
survival_threshold == 350
SufferingLevel == 700
UtilityFloor == 3
WearPerRound == 4
BaselineInfrastructure == 50
WellbeingMultiplier == 4
WellbeingCap == 1000
HighAccess == 6
LowAccess == 4
RingDegree == 4

Max2(a, b) == IF a >= b THEN a ELSE b
Min2(a, b) == IF a <= b THEN a ELSE b

RECURSIVE Gcd(_, _)
Gcd(a, b) == IF b = 0 THEN a ELSE Gcd(b, a % b)

RECURSIVE LcmUpTo(_)
LcmUpTo(n) == IF n <= 1 THEN 1
              ELSE LET l == LcmUpTo(n - 1) IN (l * n) \div Gcd(l, n)

\* One unit of dominance is 1/DomScale: every rate k/n with n <= RingDegree + 1
\* times 0.3, 0.2 or 0.05 is a whole number of units.
DomScale == 100 * LcmUpTo(RingDegree + 1)

RECURSIVE SetToSeq(_)
SetToSeq(S) == IF S = {} THEN <<>>
               ELSE LET m == CHOOSE x \in S : \A y \in S : x <= y
                    IN <<m>> \o SetToSeq(S \ {m})

Range(q) == {q[i] : i \in DOMAIN q}

RECURSIVE SumSeq(_)
SumSeq(q) == IF q = <<>> THEN 0 ELSE Head(q) + SumSeq(Tail(q))

\* ------------------------------------------------------------- the network
\* nx.watts_strogatz_graph(n, k=4, p=0.3): raises for k > n; otherwise a ring
\* in which every node is linked to its k/2 nearest nodes on either side.  The
\* rewiring pass skips every node of degree n-1, so for n <= k+1 (the sizes
\* of this model) the result is the ring itself, the complete graph.
watts_strogatz_graph(n) ==
    [i \in 1..n |->
        {j \in 1..n : j # i /\ \E d \in 1..(RingDegree \div 2) :
                         (j - i) % n = d \/ (i - j) % n = d}]

Neighbors(s, id) ==
    IF s.network.exists /\ id \in DOMAIN s.network.adj
    THEN s.network.adj[id] ELSE {}

\* The simulation as one record: the model object with its agents.
Self == [agents |-> agents, tech_agent |-> tech_agent, network |-> network,
         params |-> params, pending |-> pending, steps |-> steps,
         status |-> status]

AgentIds(s) == DOMAIN s.agents

\* ------------------------------------------------------- ReceivingAgent
ReceivingAgent(cultural_resilience, infrastructure_strength, adoption_threshold, digital_access_score) ==
    [cultural_resilience |-> cultural_resilience,
     infrastructure_strength |-> infrastructure_strength,
     adoption_threshold |-> adoption_threshold,
     digital_access_score |-> digital_access_score,
     adopted |-> FALSE, banned |-> FALSE, collapsed |-> FALSE,
     wellbeing |-> InitialWellbeing, past_wellbeing |-> <<>>,
     was_targeted |-> TRUE]

\* Denominator of the value calculate_perceived_utility returns.
UtilityDen(s) == 1000000 * s.params.implementation_cost

\* The dominance calculate_perceived_utility reads: the model's attribute
\* self.model.tech_dominance, set by the constructor.
UtilityDominance(s) == s.params.tech_dominance

\* max(0.3, (infrastructure / cost) * cultural_fit * access * (1 + dom/10)),
\* as a numerator over UtilityDen(s); the dominance read is a whole number
\* of hundredths.
calculate_perceived_utility(s, id) ==
    LET a == s.agents[id]
        base_utility == a.infrastructure_strength * s.params.cultural_fit
                          * a.digital_access_score
        tech_boost == 1000 + (UtilityDominance(s) * 100) \div DomScale
    IN Max2(UtilityFloor * 100000 * s.params.implementation_cost,
            base_utility * tech_boost)

\* calculate_peer_influence in which a banned neighbour weighs as much as an
\* adopter.
calculate_peer_influence_heavy_bans(s, id) ==
    IF ~s.network.exists \/ id \notin DOMAIN s.network.adj THEN <<0, 1>>
    ELSE LET neighbors == s.network.adj[id] \cap AgentIds(s)
             adopters == {n \in neighbors : s.agents[n].adopted}
             banned == {n \in neighbors : s.agents[n].banned}
         IN IF Cardinality(neighbors) = 0 THEN <<0, 1>>
            ELSE <<4 * Cardinality(adopters) - 4 * Cardinality(banned),
                   10 * Cardinality(neighbors)>>

\* <<numerator, denominator>> of (0.4*adopters - 0.3*banned) / neighbours.
calculate_peer_influence(s, id) ==
    IF ~s.network.exists \/ id \notin DOMAIN s.network.adj THEN <<0, 1>>
    ELSE LET neighbors == s.network.adj[id] \cap AgentIds(s)
             adopters == {n \in neighbors : s.agents[n].adopted}
             banned == {n \in neighbors : s.agents[n].banned}
         IN IF Cardinality(neighbors) = 0 THEN <<0, 1>>
            ELSE <<4 * Cardinality(adopters) - 3 * Cardinality(banned),
                   10 * Cardinality(neighbors)>>

\* decide_to_adopt with the cultural resilience deducted in full.
decide_to_adopt_full_resilience(s, id, d) ==
    LET a == s.agents[id]
        u == calculate_perceived_utility(s, id)
        p == calculate_peer_influence(s, id)
        ud == UtilityDen(s)
        final_score == 2 * u * p[2] + 2 * ud * p[1]
                         - (ud \div 50) * a.cultural_resilience * p[2]
                         + (ud \div 5) * d.noise * p[2]
        threshold == (ud \div 50) * a.adoption_threshold * p[2]
    IN IF a.adopted \/ a.banned THEN a
       ELSE IF final_score > threshold THEN [a EXCEPT !.adopted = TRUE]
       ELSE a

\* final_score > adoption_threshold, both sides times 2 * UtilityDen * pd.
decide_to_adopt(s, id, d) ==
    LET a == s.agents[id]
        u == calculate_perceived_utility(s, id)
        p == calculate_peer_influence(s, id)
        ud == UtilityDen(s)
        final_score == 2 * u * p[2] + 2 * ud * p[1]
                         - (ud \div 100) * a.cultural_resilience * p[2]
                         + (ud \div 5) * d.noise * p[2]
        threshold == (ud \div 50) * a.adoption_threshold * p[2]
    IN IF a.adopted \/ a.banned THEN a
       ELSE IF final_score > threshold THEN [a EXCEPT !.adopted = TRUE]
       ELSE a

\* update_wellbeing without the final clamp.
update_wellbeing_unclamped(a, d) ==
    LET delta == (a.infrastructure_strength - BaselineInfrastructure)
                    * WellbeingMultiplier
        w == IF a.adopted
             THEN a.wellbeing + delta - (IF d.crisis THEN d.crisis_damage ELSE 0)
             ELSE a.wellbeing - d.decline
    IN [a EXCEPT !.wellbeing = w,
                 !.infrastructure_strength =
                     IF a.adopted THEN @ - WearPerRound ELSE @]

\* update_wellbeing in which the infrastructure wears whether or not the
\* community is adopted.
update_wellbeing_wear_always(a, d) ==
    LET delta == (a.infrastructure_strength - BaselineInfrastructure)
                    * WellbeingMultiplier
        w == IF a.adopted
             THEN a.wellbeing + delta - (IF d.crisis THEN d.crisis_damage ELSE 0)
             ELSE a.wellbeing - d.decline
    IN [a EXCEPT !.wellbeing = Max2(0, Min2(WellbeingCap, w)),
                 !.infrastructure_strength = @ - WearPerRound]

update_wellbeing(a, d) ==
    LET delta == (a.infrastructure_strength - BaselineInfrastructure)
                    * WellbeingMultiplier
        w == IF a.adopted
             THEN a.wellbeing + delta - (IF d.crisis THEN d.crisis_damage ELSE 0)
             ELSE a.wellbeing - d.decline
    IN [a EXCEPT !.wellbeing = Max2(0, Min2(WellbeingCap, w)),
                 !.infrastructure_strength =
                     IF a.adopted THEN @ - WearPerRound ELSE @]

\* track_wellbeing_and_ban without the panic branch.
track_wellbeing_and_ban_no_panic(s, id, a) ==
    LET appended == Append(a.past_wellbeing, a.wellbeing)
        past == IF Len(appended) > ban_window THEN Tail(appended) ELSE appended
        a1 == [a EXCEPT !.past_wellbeing = past]
        neighbors == s.network.adj[id] \cap AgentIds(s)
        adopted_neighbors == {n \in neighbors : s.agents[n].adopted
                                 /\ ~s.agents[n].banned /\ ~s.agents[n].collapsed}
        suffering_neighbors == {n \in adopted_neighbors :
                                   s.agents[n].wellbeing < SufferingLevel}
        ban == [a1 EXCEPT !.banned = TRUE, !.adopted = FALSE]
    IN IF a1.adopted /\ Len(past) = ban_window
          /\ SumSeq(past) < ban_threshold * ban_window
       THEN ban
       ELSE IF a1.banned \/ ~s.network.exists \/ id \notin DOMAIN s.network.adj
       THEN a1
       ELSE IF Cardinality(neighbors) = 0 THEN a1
       ELSE IF Cardinality(adopted_neighbors) >= 1
               /\ Cardinality(suffering_neighbors) > 0 THEN ban
       ELSE a1

\* track_wellbeing_and_ban in which the post-adoption branch gives the
\* technology up (adopted = False) without banning it.
track_wellbeing_and_ban_abandon(s, id, a) ==
    LET appended == Append(a.past_wellbeing, a.wellbeing)
        past == IF Len(appended) > ban_window THEN Tail(appended) ELSE appended
        a1 == [a EXCEPT !.past_wellbeing = past]
        neighbors == s.network.adj[id] \cap AgentIds(s)
        adopted_neighbors == {n \in neighbors : s.agents[n].adopted
                                 /\ ~s.agents[n].banned /\ ~s.agents[n].collapsed}
        collapsed_neighbors == {n \in neighbors : s.agents[n].collapsed}
        suffering_neighbors == {n \in adopted_neighbors :
                                   s.agents[n].wellbeing < SufferingLevel}
        ban == [a1 EXCEPT !.banned = TRUE, !.adopted = FALSE]
    IN IF a1.adopted /\ Len(past) = ban_window
          /\ SumSeq(past) < ban_threshold * ban_window
       THEN [a1 EXCEPT !.adopted = FALSE]
       ELSE IF a1.banned \/ ~s.network.exists \/ id \notin DOMAIN s.network.adj
       THEN a1
       ELSE IF Cardinality(neighbors) = 0 THEN a1
       ELSE IF Cardinality(collapsed_neighbors) > 0 THEN ban
       ELSE IF Cardinality(adopted_neighbors) >= 1
               /\ Cardinality(suffering_neighbors) > 0 THEN ban
       ELSE a1

\* track_wellbeing_and_ban whose post-adoption branch does not wait for a
\* full window.
track_wellbeing_and_ban_short_window(s, id, a) ==
    LET appended == Append(a.past_wellbeing, a.wellbeing)
        past == IF Len(appended) > ban_window THEN Tail(appended) ELSE appended
        a1 == [a EXCEPT !.past_wellbeing = past]
        neighbors == s.network.adj[id] \cap AgentIds(s)
        adopted_neighbors == {n \in neighbors : s.agents[n].adopted
                                 /\ ~s.agents[n].banned /\ ~s.agents[n].collapsed}
        collapsed_neighbors == {n \in neighbors : s.agents[n].collapsed}
        suffering_neighbors == {n \in adopted_neighbors :
                                   s.agents[n].wellbeing < SufferingLevel}
        ban == [a1 EXCEPT !.banned = TRUE, !.adopted = FALSE]
    IN IF a1.adopted /\ SumSeq(past) < ban_threshold * Len(past)
       THEN ban
       ELSE IF a1.banned \/ ~s.network.exists \/ id \notin DOMAIN s.network.adj
       THEN a1
       ELSE IF Cardinality(neighbors) = 0 THEN a1
       ELSE IF Cardinality(collapsed_neighbors) > 0 THEN ban
       ELSE IF Cardinality(adopted_neighbors) >= 1
               /\ Cardinality(suffering_neighbors) > 0 THEN ban
       ELSE a1

\* track_wellbeing_and_ban whose network rule is open to adopters only.
track_wellbeing_and_ban_adopters_only(s, id, a) ==
    LET appended == Append(a.past_wellbeing, a.wellbeing)
        past == IF Len(appended) > ban_window THEN Tail(appended) ELSE appended
        a1 == [a EXCEPT !.past_wellbeing = past]
        neighbors == s.network.adj[id] \cap AgentIds(s)
        adopted_neighbors == {n \in neighbors : s.agents[n].adopted
                                 /\ ~s.agents[n].banned /\ ~s.agents[n].collapsed}
        collapsed_neighbors == {n \in neighbors : s.agents[n].collapsed}
        suffering_neighbors == {n \in adopted_neighbors :
                                   s.agents[n].wellbeing < SufferingLevel}
        ban == [a1 EXCEPT !.banned = TRUE, !.adopted = FALSE]
    IN IF a1.adopted /\ Len(past) = ban_window
          /\ SumSeq(past) < ban_threshold * ban_window
       THEN ban
       ELSE IF a1.banned \/ ~s.network.exists \/ id \notin DOMAIN s.network.adj
       THEN a1
       ELSE IF Cardinality(neighbors) = 0 THEN a1
       ELSE IF Cardinality(collapsed_neighbors) > 0 THEN ban
       ELSE IF a1.adopted /\ Cardinality(adopted_neighbors) >= 1
               /\ Cardinality(suffering_neighbors) > 0 THEN ban
       ELSE a1

\* a is the stepping agent after its wellbeing update; the neighbours are
\* read from s as they are now.
track_wellbeing_and_ban(s, id, a) ==
    LET appended == Append(a.past_wellbeing, a.wellbeing)
        past == IF Len(appended) > ban_window THEN Tail(appended) ELSE appended
        a1 == [a EXCEPT !.past_wellbeing = past]
        neighbors == s.network.adj[id] \cap AgentIds(s)
        adopted_neighbors == {n \in neighbors : s.agents[n].adopted
                                 /\ ~s.agents[n].banned /\ ~s.agents[n].collapsed}
        collapsed_neighbors == {n \in neighbors : s.agents[n].collapsed}
        suffering_neighbors == {n \in adopted_neighbors :
                                   s.agents[n].wellbeing < SufferingLevel}
        ban == [a1 EXCEPT !.banned = TRUE, !.adopted = FALSE]
    IN IF a1.adopted /\ Len(past) = ban_window
          /\ SumSeq(past) < ban_threshold * ban_window
       THEN ban
       ELSE IF a1.banned \/ ~s.network.exists \/ id \notin DOMAIN s.network.adj
       THEN a1
       ELSE IF Cardinality(neighbors) = 0 THEN a1
       ELSE IF Cardinality(collapsed_neighbors) > 0 THEN ban
       ELSE IF Cardinality(adopted_neighbors) >= 1
               /\ Cardinality(suffering_neighbors) > 0 THEN ban
       ELSE a1

\* check_collapse without self.banned = True.
check_collapse_no_ban(a) ==
    IF a.wellbeing < survival_threshold
    THEN [a EXCEPT !.collapsed = TRUE, !.adopted = FALSE]
    ELSE a

\* check_collapse without self.adopted = False.
check_collapse_keeps_adopted(a) ==
    IF a.wellbeing < survival_threshold
    THEN [a EXCEPT !.collapsed = TRUE, !.banned = TRUE]
    ELSE a

check_collapse(a) ==
    IF a.wellbeing < survival_threshold
    THEN [a EXCEPT !.collapsed = TRUE, !.adopted = FALSE, !.banned = TRUE]
    ELSE a

\* ReceivingAgent.step without the early return of a banned or collapsed agent.
ReceivingAgent_step_no_skip(s, id, d) ==
    LET a == s.agents[id]
        a1 == IF a.was_targeted THEN decide_to_adopt(s, id, d) ELSE a
        a2 == update_wellbeing(a1, d)
        a3 == track_wellbeing_and_ban(s, id, a2)
    IN check_collapse(a3)

\* ReceivingAgent.step in which a ban raised by track_wellbeing_and_ban ends
\* the step before check_collapse.
ReceivingAgent_step_ban_ends_step(s, id, d) ==
    LET a == s.agents[id]
        a1 == IF a.was_targeted THEN decide_to_adopt(s, id, d) ELSE a
        a2 == update_wellbeing(a1, d)
        a3 == track_wellbeing_and_ban(s, id, a2)
    IN IF a.banned \/ a.collapsed THEN a
       ELSE IF a3.banned THEN a3
       ELSE check_collapse(a3)

\* ReceivingAgent.step that evaluates the adoption decision whether or not
\* the community is targeted.
ReceivingAgent_step_untargeted_decides(s, id, d) ==
    LET a == s.agents[id]
        a1 == decide_to_adopt(s, id, d)
        a2 == update_wellbeing(a1, d)
        a3 == track_wellbeing_and_ban(s, id, a2)
    IN IF a.banned \/ a.collapsed THEN a ELSE check_collapse(a3)

\* ReceivingAgent.step of agent id, with the random draws d.
ReceivingAgent_step(s, id, d) ==
    LET a == s.agents[id]
        a1 == IF a.was_targeted THEN decide_to_adopt(s, id, d) ELSE a
        a2 == update_wellbeing(a1, d)
        a3 == track_wellbeing_and_ban(s, id, a2)
    IN IF a.banned \/ a.collapsed THEN a ELSE check_collapse(a3)

\* ----------------------------------------------------- TechSuperpowerAgent
TechSuperpowerAgent(tech_dominance, deployment_policy) ==
    [tech_dominance |-> tech_dominance,
     deployment_policy |-> deployment_policy,
     deployed_agents |-> <<>>]

\* The agents deploy_technology may target.
Eligible(s) == {i \in AgentIds(s) : ~s.agents[i].banned /\ ~s.agents[i].collapsed}

high_access(s) == {i \in Eligible(s) : s.agents[i].digital_access_score >= HighAccess}
\* low_access that takes in every community below the high-access mark.
low_access_below_high(s) == {i \in Eligible(s) : s.agents[i].digital_access_score < HighAccess}

low_access(s) == {i \in Eligible(s) : s.agents[i].digital_access_score < LowAccess}

\* num_to_deploy without the minimum of one.
num_to_deploy_half(s) == Cardinality(Eligible(s)) \div 2

num_to_deploy(s) == Max2(1, Cardinality(Eligible(s)) \div 2)
num_high(s) == num_to_deploy(s) \div 2
num_low(s) == num_to_deploy(s) - num_high(s)

\* random.sample(population, k): the sets it can return.
Samples(population, k) == {S \in SUBSET population : Cardinality(S) = k}

\* deploy_technology without the reset of was_targeted.
deploy_technology_no_reset(s, d) ==
    LET policy == s.tech_agent.deployment_policy
        targets ==
            IF policy = "all" THEN SetToSeq(Eligible(s))
            ELSE IF policy = "random"
                 THEN SetToSeq(d.selected_high) \o SetToSeq(d.selected_low)
            ELSE IF policy = "filtered" THEN SetToSeq(high_access(s))
            ELSE <<>>
    IN [s EXCEPT !.tech_agent.deployed_agents = targets,
                 !.agents = [i \in AgentIds(s) |->
                     [s.agents[i] EXCEPT !.was_targeted =
                         (@ \/ i \in Range(targets))]]]

\* deploy_technology with the access filter of 'filtered' left out.
deploy_technology_unfiltered(s, d) ==
    LET policy == s.tech_agent.deployment_policy
        targets ==
            IF policy = "all" THEN SetToSeq(Eligible(s))
            ELSE IF policy = "random"
                 THEN SetToSeq(d.selected_high) \o SetToSeq(d.selected_low)
            ELSE IF policy = "filtered" THEN SetToSeq(Eligible(s))
            ELSE <<>>
    IN [s EXCEPT !.tech_agent.deployed_agents = targets,
                 !.agents = [i \in AgentIds(s) |->
                     [s.agents[i] EXCEPT !.was_targeted = (i \in Range(targets))]]]

\* deploy_technology in which an unknown policy falls back to 'all'.
deploy_technology_default_all(s, d) ==
    LET policy == s.tech_agent.deployment_policy
        targets ==
            IF policy = "all" THEN SetToSeq(Eligible(s))
            ELSE IF policy = "random"
                 THEN SetToSeq(d.selected_high) \o SetToSeq(d.selected_low)
            ELSE IF policy = "filtered" THEN SetToSeq(high_access(s))
            ELSE SetToSeq(Eligible(s))
    IN [s EXCEPT !.tech_agent.deployed_agents = targets,
                 !.agents = [i \in AgentIds(s) |->
                     [s.agents[i] EXCEPT !.was_targeted = (i \in Range(targets))]]]

\* d.selected_high and d.selected_low are the results of the two
\* random.sample calls.
deploy_technology(s, d) ==
    LET policy == s.tech_agent.deployment_policy
        targets ==
            IF policy = "all" THEN SetToSeq(Eligible(s))
            ELSE IF policy = "random"
                 THEN SetToSeq(d.selected_high) \o SetToSeq(d.selected_low)
            ELSE IF policy = "filtered" THEN SetToSeq(high_access(s))
            ELSE <<>>
    IN [s EXCEPT !.tech_agent.deployed_agents = targets,
                 !.agents = [i \in AgentIds(s) |->
                     [s.agents[i] EXCEPT !.was_targeted = (i \in Range(targets))]]]

\* monitor_global_rejection without the floor of 1.0.
monitor_global_rejection_no_floor(s) ==
    LET receiving_agents == AgentIds(s)
        adopted_count == Cardinality({i \in receiving_agents :
                             s.agents[i].adopted /\ ~s.agents[i].banned})
        banned_count == Cardinality({i \in receiving_agents : s.agents[i].banned})
        collapsed_count == Cardinality({i \in receiving_agents : s.agents[i].collapsed})
        total_count == Cardinality(receiving_agents)
        deployed == Len(s.tech_agent.deployed_agents) + 1
        failures == banned_count + collapsed_count
        dom == s.tech_agent.tech_dominance
        \* 0.3 * (failure_rate - 0.3) and 0.2 * (success_rate - 0.4)
        dominance_loss == (DomScale * (30 * failures - 9 * total_count))
                             \div (100 * total_count)
        dominance_gain == (DomScale * (20 * adopted_count - 8 * deployed))
                             \div (100 * deployed)
        drift == DomScale \div 20
        baseline == 3 * DomScale
        new == IF 10 * failures > 3 * total_count
               THEN dom - dominance_loss
               ELSE IF 10 * adopted_count > 4 * deployed
               THEN Min2(5 * DomScale, dom + dominance_gain)
               ELSE IF 10 * failures >= total_count
                       /\ 10 * failures < 3 * total_count
                       /\ 10 * adopted_count > 2 * deployed
                       /\ 10 * adopted_count < 4 * deployed
               THEN IF dom > baseline THEN Max2(baseline, dom - drift)
                    ELSE IF dom < baseline THEN Min2(baseline, dom + drift)
                    ELSE dom
               ELSE dom
    IN IF Cardinality(receiving_agents) = 0 THEN s
       ELSE [s EXCEPT !.tech_agent.tech_dominance = new]

\* monitor_global_rejection in which the success test comes before the
\* failure test.
monitor_global_rejection_success_first(s) ==
    LET receiving_agents == AgentIds(s)
        adopted_count == Cardinality({i \in receiving_agents :
                             s.agents[i].adopted /\ ~s.agents[i].banned})
        banned_count == Cardinality({i \in receiving_agents : s.agents[i].banned})
        collapsed_count == Cardinality({i \in receiving_agents : s.agents[i].collapsed})
        total_count == Cardinality(receiving_agents)
        deployed == Len(s.tech_agent.deployed_agents) + 1
        failures == banned_count + collapsed_count
        dom == s.tech_agent.tech_dominance
        dominance_loss == (DomScale * (30 * failures - 9 * total_count))
                             \div (100 * total_count)
        dominance_gain == (DomScale * (20 * adopted_count - 8 * deployed))
                             \div (100 * deployed)
        drift == DomScale \div 20
        baseline == 3 * DomScale
        new == IF 10 * adopted_count > 4 * deployed
               THEN Min2(5 * DomScale, dom + dominance_gain)
               ELSE IF 10 * failures > 3 * total_count
               THEN Max2(1 * DomScale, dom - dominance_loss)
               ELSE IF 10 * failures >= total_count
                       /\ 10 * failures < 3 * total_count
                       /\ 10 * adopted_count > 2 * deployed
                       /\ 10 * adopted_count < 4 * deployed
               THEN IF dom > baseline THEN Max2(baseline, dom - drift)
                    ELSE IF dom < baseline THEN Min2(baseline, dom + drift)
                    ELSE dom
               ELSE dom
    IN IF Cardinality(receiving_agents) = 0 THEN s
       ELSE [s EXCEPT !.tech_agent.tech_dominance = new]

monitor_global_rejection(s) ==
    LET receiving_agents == AgentIds(s)
        adopted_count == Cardinality({i \in receiving_agents :
                             s.agents[i].adopted /\ ~s.agents[i].banned})
        banned_count == Cardinality({i \in receiving_agents : s.agents[i].banned})
        collapsed_count == Cardinality({i \in receiving_agents : s.agents[i].collapsed})
        total_count == Cardinality(receiving_agents)
        deployed == Len(s.tech_agent.deployed_agents) + 1
        failures == banned_count + collapsed_count
        dom == s.tech_agent.tech_dominance
        \* 0.3 * (failure_rate - 0.3) and 0.2 * (success_rate - 0.4)
        dominance_loss == (DomScale * (30 * failures - 9 * total_count))
                             \div (100 * total_count)
        dominance_gain == (DomScale * (20 * adopted_count - 8 * deployed))
                             \div (100 * deployed)
        drift == DomScale \div 20
        baseline == 3 * DomScale
        new == IF 10 * failures > 3 * total_count
               THEN Max2(1 * DomScale, dom - dominance_loss)
               ELSE IF 10 * adopted_count > 4 * deployed
               THEN Min2(5 * DomScale, dom + dominance_gain)
               ELSE IF 10 * failures >= total_count
                       /\ 10 * failures < 3 * total_count
                       /\ 10 * adopted_count > 2 * deployed
                       /\ 10 * adopted_count < 4 * deployed
               THEN IF dom > baseline THEN Max2(baseline, dom - drift)
                    ELSE IF dom < baseline THEN Min2(baseline, dom + drift)
                    ELSE dom
               ELSE dom
    IN IF Cardinality(receiving_agents) = 0 THEN s
       ELSE [s EXCEPT !.tech_agent.tech_dominance = new]

TechSuperpowerAgent_step(s, d) == monitor_global_rejection(deploy_technology(s, d))

\* ------------------------------------------------ DigitalColonialismModel
\* Inputs of the constructor, and the values the seeded stream can deliver.
\* Rosters from none (and a negative count, which range() treats as none) up
\* to the smallest one a small-world network can be built over.
AgentCounts == -1..RingDegree
Policies == {"all", "random", "filtered", "none"}
NetworkTypes == {"small_world", "lattice"}
Dominances == {1 * DomScale, 5 * DomScale}
Costs == {5}
CulturalFits == {8}

\* init_agents: a privileged community has infrastructure in [8, 12] and
\* access in [0.7, 1.0], an average one infrastructure in [2, 8] and access
\* in [0.2, 0.7]; resilience is in [0.05, 0.8], the threshold in [0.1, 1.0].
CommunityTypes ==
    << ReceivingAgent(5, 120, 10, 7),
       ReceivingAgent(5, 20, 5, 5),
       ReceivingAgent(80, 20, 100, 2) >>

Noises == {-2, 3}
CrisisDamages == {280}
Declines == {45}

Draws == [noise : Noises, crisis : BOOLEAN,
          crisis_damage : CrisisDamages, decline : Declines]

\* The draws agent id's step can make: a value the step does not draw from
\* the stream is left at the least value.
AgentDraws(s, id) ==
    LET a == s.agents[id]
        skipped == a.banned \/ a.collapsed
        decides == ~skipped /\ a.was_targeted /\ ~a.adopted
        Least(S) == CHOOSE x \in S : \A y \in S : x <= y
    IN {d \in Draws :
          LET adopts == IF decides THEN decide_to_adopt(s, id, d).adopted
                        ELSE a.adopted
          IN /\ decides \/ d.noise = Least(Noises)
             /\ (~skipped /\ adopts) \/ ~d.crisis
             /\ (~skipped /\ adopts /\ d.crisis)
                  \/ d.crisis_damage = Least(CrisisDamages)
             /\ (~skipped /\ ~adopts) \/ d.decline = Least(Declines)}

TechDraws(s) ==
    IF s.tech_agent.deployment_policy = "random"
    THEN [selected_high : Samples(high_access(s),
                                   Min2(Cardinality(high_access(s)), num_high(s))),
          selected_low : Samples(low_access(s),
                                  Min2(Cardinality(low_access(s)), num_low(s)))]
    ELSE [selected_high : {{}}, selected_low : {{}}]

\* The rosters init_agents can create: agent i gets the traits types[i].
Rosters(n) == {types \in [1..n -> 1..Len(CommunityTypes)] :
                 /\ \A i, j \in 1..n : i <= j => types[i] <= types[j]
                 /\ \A k \in 1..Len(CommunityTypes) :
                       2 * Cardinality({i \in 1..n : types[i] = k}) <= n + 1}

init_agents(n, types) == [i \in 1..n |-> CommunityTypes[types[i]]]

\* create_network: only 'small_world' sets self.network.
create_network(n, network_type) ==
    IF network_type = "small_world"
    THEN [exists |-> TRUE, adj |-> watts_strogatz_graph(n)]
    ELSE [exists |-> FALSE, adj |-> <<>>]

\* DigitalColonialismModel.__init__; nx.watts_strogatz_graph raises when
\* k = 4 exceeds the number of nodes.
Construct(in, types) ==
    LET n == Max2(0, in.num_receiving_agents)
        raises == in.network_type = "small_world" /\ RingDegree > n
    IN [agents |-> IF raises THEN <<>> ELSE init_agents(n, types),
        tech_agent |-> TechSuperpowerAgent(in.tech_dominance, in.deployment_policy),
        network |-> IF raises THEN [exists |-> FALSE, adj |-> <<>>]
                    ELSE create_network(n, in.network_type),
        params |-> [num_receiving_agents |-> in.num_receiving_agents,
                    implementation_cost |-> in.implementation_cost,
                    cultural_fit |-> in.cultural_fit,
                    deployment_policy |-> in.deployment_policy,
                    tech_dominance |-> in.tech_dominance,
                    network_type |-> in.network_type],
        pending |-> {},
        steps |-> 0,
        status |-> IF raises THEN "raised" ELSE "constructed"]

ConstructorInputs ==
    [num_receiving_agents : AgentCounts, implementation_cost : Costs,
     cultural_fit : CulturalFits, deployment_policy : Policies,
     tech_dominance : Dominances, network_type : NetworkTypes]

\* DigitalColonialismModel.step without the call of tech_agent.step().
model_step_no_deployer(s, d) ==
    [s EXCEPT !.pending = AgentIds(s), !.steps = @ + 1]

\* DigitalColonialismModel.step up to the loop over the shuffled agents: the
\* Deployer's step, then the shuffle.  The shuffled order is revealed one
\* agent at a time: pending holds the agents the loop has not reached.
model_step(s, d) ==
    [TechSuperpowerAgent_step(s, d) EXCEPT !.pending = AgentIds(s),
                                           !.steps = @ + 1]

\* One iteration of the loop under snapshot-then-update-all semantics: the
\* stepping agent reads every other agent as it was when the round began.
agent_turn_snapshot(s, id, d) ==
    LET snapshot == [j \in AgentIds(s) |->
                        IF j = id THEN s.agents[j]
                        ELSE [pre_step_states[j] EXCEPT
                                 !.was_targeted = s.agents[j].was_targeted]]
    IN [s EXCEPT !.agents[id] =
                     ReceivingAgent_step([s EXCEPT !.agents = snapshot], id, d),
                 !.pending = @ \ {id}]

\* One iteration of the loop in which a community that is banned by its
\* cycle passes the ban on to its neighbours.
agent_turn_spreads_ban(s, id, d) ==
    LET stepped == ReceivingAgent_step(s, id, d)
        spreads == stepped.banned /\ ~s.agents[id].banned
    IN [s EXCEPT !.agents = [j \in AgentIds(s) |->
                                IF j = id THEN stepped
                                ELSE IF spreads /\ j \in Neighbors(s, id)
                                THEN [s.agents[j] EXCEPT !.banned = TRUE,
                                                         !.adopted = FALSE]
                                ELSE s.agents[j]],
                 !.pending = @ \ {id}]

\* One iteration of the loop: agent.step() of the next agent in the order.
agent_turn(s, id, d) ==
    [s EXCEPT !.agents[id] = ReceivingAgent_step(s, id, d),
              !.pending = @ \ {id}]

Apply(s) ==
    /\ agents' = s.agents
    /\ tech_agent' = s.tech_agent
    /\ network' = s.network
    /\ params' = s.params
    /\ pending' = s.pending
    /\ steps' = s.steps
    /\ status' = s.status

NoTwin == [status |-> "none"]

\* The stream of Spec is not seeded: its draws are arbitrary.
NoDraws == [noise |-> 0, crisis |-> FALSE, crisis_damage |-> 0, decline |-> 0]
NoStream == [supplied |-> 0, seed |-> 0, state |-> 0, drawn |-> {}, d |-> NoDraws]

Init ==
    /\ \E in \in ConstructorInputs :
         \E types \in Rosters(Max2(0, in.num_receiving_agents)) :
            LET s == Construct(in, types)
            IN /\ agents = s.agents
               /\ tech_agent = s.tech_agent
               /\ network = s.network
               /\ params = s.params
               /\ pending = s.pending
               /\ steps = s.steps
               /\ status = s.status
    /\ pre_step_states = <<>>
    /\ rng = NoStream
    /\ twin = NoTwin

\* model.step() is called: statistics, the Deployer's step and the shuffle.
ModelStep ==
    /\ status = "constructed"
    /\ pending = {}
    /\ steps < MaxRounds
    /\ AgentIds(Self) # {}
    /\ \E d \in TechDraws(Self) : Apply(model_step(Self, d))
    /\ pre_step_states' = agents
    /\ UNCHANGED <<rng, twin>>

\* With no community the AvgWellbeing reporter divides by zero.
ModelStepRaises ==
    /\ status = "constructed"
    /\ pending = {}
    /\ AgentIds(Self) = {}
    /\ status' = "raised"
    /\ UNCHANGED <<agents, tech_agent, network, params, pending, steps,
                   pre_step_states, rng, twin>>

AgentStep ==
    /\ status = "constructed"
    /\ \E id \in pending : \E d \in AgentDraws(Self, id) : Apply(agent_turn(Self, id, d))
    /\ UNCHANGED <<pre_step_states, rng, twin>>

Next == ModelStep \/ ModelStepRaises \/ AgentStep

Spec == Init /\ [][Next]_vars

\* ------------------------------------------------ two seeded simulations
\* random.Random(seed) as a full-period congruential generator: what the
\* program relies on is that the stream is a function of the seed.
RngModulus == 16

Random(seed) == seed % RngModulus
NextRng(r) == (5 * r + 3) % RngModulus

\* The element of S the stream value r selects.
RECURSIVE PickFrom(_, _)
PickFrom(S, r) ==
    LET x == CHOOSE y \in S : TRUE
        k == r % Cardinality(S)
    IN IF k = 0 THEN x ELSE PickFrom(S \ {x}, k - 1)

\* self.seed = seed or random.randint(0, 99999): a seed of 0 is falsy, so
\* the model draws its own seed from the unseeded global generator.
SuppliedSeeds == 0..MaxSeed
EffectiveSeeds(seed) == IF seed = 0 THEN 0..MaxSeed ELSE {seed}

\* __init__ with the seed the model settled on: the traits come from the
\* seeded stream.
ConstructSeeded(in, supplied, seed) ==
    LET n == Max2(0, in.num_receiving_agents)
        s == Construct(in, PickFrom(Rosters(n), Random(seed)))
    IN [agents |-> s.agents, tech_agent |-> s.tech_agent,
        network |-> s.network, params |-> s.params, pending |-> s.pending,
        steps |-> s.steps, status |-> s.status,
        rng |-> [supplied |-> supplied, seed |-> seed,
                 state |-> NextRng(Random(seed)), drawn |-> {},
                 d |-> NoDraws]]

Advance(r) == [r EXCEPT !.state = NextRng(@)]

\* model.step() up to the loop, and one iteration of the loop, with every
\* draw taken from the simulation's own stream.
seeded_model_step(t) ==
    LET s == model_step(t, PickFrom(TechDraws(t), t.rng.state))
    IN [s EXCEPT !.rng = [Advance(@) EXCEPT !.drawn = {}, !.d = NoDraws]]

\* The names of the draws ReceivingAgent.step of agent id makes when their
\* values are d: the randomness of decide_to_adopt if the decision is
\* evaluated, then in update_wellbeing the crisis test and, in a crisis, the
\* crisis damage of an adopter, or the decline of a non-adopter.
DrawnNames(s, id, d) ==
    LET a == s.agents[id]
        skipped == a.banned \/ a.collapsed
        decides == ~skipped /\ a.was_targeted /\ ~a.adopted
        adopts == IF decides THEN decide_to_adopt(s, id, d).adopted ELSE a.adopted
    IN {n \in {"randomness"} : decides}
          \cup {n \in {"crisis"} : ~skipped /\ adopts}
          \cup {n \in {"crisis_damage"} : ~skipped /\ adopts /\ d.crisis}
          \cup {n \in {"decline"} : ~skipped /\ ~adopts}

\* The draws ReceivingAgent.step of agent id takes from the stream, in the
\* order of the code: the randomness of decide_to_adopt if the decision is
\* evaluated, then in update_wellbeing the crisis test and the crisis damage
\* of an adopter, or the decline of a non-adopter.  r is the stream before
\* the first of them; state is the stream after the last, drawn their names,
\* d their values.
SeededDraws(t, id, r) ==
    LET a == t.agents[id]
        Least(S) == CHOOSE x \in S : \A y \in S : x <= y
        skipped == a.banned \/ a.collapsed
        decides == ~skipped /\ a.was_targeted /\ ~a.adopted
        noise == IF decides THEN PickFrom(Noises, r) ELSE Least(Noises)
        r1 == IF decides THEN NextRng(r) ELSE r
        adopts == IF decides
                  THEN decide_to_adopt(t, id, [noise |-> noise]).adopted
                  ELSE a.adopted
        tests == ~skipped /\ adopts
        crisis == tests /\ PickFrom(BOOLEAN, r1)
        r2 == IF tests THEN NextRng(r1) ELSE r1
        damage == IF crisis THEN PickFrom(CrisisDamages, r2) ELSE Least(CrisisDamages)
        r3 == IF crisis THEN NextRng(r2) ELSE r2
        declines == ~skipped /\ ~adopts
        decline == IF declines THEN PickFrom(Declines, r3) ELSE Least(Declines)
        r4 == IF declines THEN NextRng(r3) ELSE r3
        d == [noise |-> noise, crisis |-> crisis,
              crisis_damage |-> damage, decline |-> decline]
    IN [d |-> d, state |-> r4, drawn |-> DrawnNames(t, id, d)]

seeded_agent_turn(t) ==
    LET id == PickFrom(t.pending, t.rng.state)
        draws == SeededDraws(t, id, NextRng(t.rng.state))
        s == agent_turn(t, id, draws.d)
    IN [s EXCEPT !.rng = [@ EXCEPT !.state = draws.state, !.drawn = draws.drawn,
                               !.d = draws.d]]

SelfSeeded == [agents |-> agents, tech_agent |-> tech_agent,
               network |-> network, params |-> params, pending |-> pending,
               steps |-> steps, status |-> status, rng |-> rng]

InitDet ==
    /\ \E in \in ConstructorInputs : \E supplied \in SuppliedSeeds :
         \E seedA \in EffectiveSeeds(supplied) :
           \E seedB \in EffectiveSeeds(supplied) :
              LET s == ConstructSeeded(in, supplied, seedA)
              IN /\ agents = s.agents
                 /\ tech_agent = s.tech_agent
                 /\ network = s.network
                 /\ params = s.params
                 /\ pending = s.pending
                 /\ steps = s.steps
                 /\ status = s.status
                 /\ rng = s.rng
                 /\ twin = ConstructSeeded(in, supplied, seedB)
    /\ pre_step_states = <<>>

\* The two simulations are stepped side by side.
DetModelStep ==
    /\ status = "constructed" /\ twin.status = "constructed"
    /\ pending = {} /\ twin.pending = {}
    /\ steps < MaxRounds
    /\ AgentIds(Self) # {}
    /\ LET s == seeded_model_step(SelfSeeded)
       IN Apply(s) /\ rng' = s.rng
    /\ twin' = seeded_model_step(twin)
    /\ UNCHANGED pre_step_states

DetAgentStep ==
    /\ status = "constructed" /\ twin.status = "constructed"
    /\ pending # {} /\ twin.pending # {}
    /\ LET s == seeded_agent_turn(SelfSeeded)
       IN Apply(s) /\ rng' = s.rng
    /\ twin' = seeded_agent_turn(twin)
    /\ UNCHANGED pre_step_states

NextDet == DetModelStep \/ DetAgentStep

SpecDet == InitDet /\ [][NextDet]_vars

\* ------------------------------------------------------------ properties
\* The Deployer's step of a round has just run: no community has stepped yet.
AfterDeployerStep ==
    status = "constructed" /\ steps > 0 /\ agents # <<>>
    /\ pending = DOMAIN agents

\* A round has run to its end.
RoundEnd == status = "constructed" /\ steps > 0 /\ pending = {}

\* A round has run to its end and pre_step_states holds its start.
RoundRan == RoundEnd /\ DOMAIN pre_step_states = DOMAIN agents

FailureCount ==
    Cardinality({i \in DOMAIN agents : agents[i].banned})
      + Cardinality({i \in DOMAIN agents : agents[i].collapsed})

\* C1: in every state (after every community step and at every round end)
\* every community satisfies collapsed => banned and banned => not adopted.
StateExclusivity ==
    \A i \in DOMAIN agents :
        /\ agents[i].collapsed => agents[i].banned
        /\ agents[i].banned => ~agents[i].adopted

\* A collapsed, a banned but not collapsed and an adopted community together.
StateExclusivityWitness ==
    \E i, j, k \in DOMAIN agents :
        /\ agents[i].collapsed
        /\ agents[j].banned /\ ~agents[j].collapsed
        /\ agents[k].adopted

\* C2: every community's wellbeing is within [0, 100] after every wellbeing
\* update.
WellbeingClamp ==
    \A i \in DOMAIN agents :
        agents[i].wellbeing >= 0 /\ agents[i].wellbeing <= WellbeingCap

\* An adopter whose update was cut off at 100, next to a community that has
\* fallen below the survival threshold.
WellbeingClampWitness ==
    \E i, j \in DOMAIN agents :
        /\ agents[i].adopted /\ agents[i].past_wellbeing # <<>>
        /\ agents[i].wellbeing = WellbeingCap
        /\ agents[i].infrastructure_strength > BaselineInfrastructure
        /\ agents[j].wellbeing < survival_threshold

\* C3: a collapsed community stays collapsed, banned and not adopted in
\* every later step.
CollapsePermanent ==
    [][\A i \in DOMAIN agents :
          agents[i].collapsed =>
             agents'[i].collapsed /\ agents'[i].banned /\ ~agents'[i].adopted]_vars

\* A community that was collapsed when a round began, at the end of that round.
CollapsePermanentWitness ==
    /\ RoundRan
    /\ \E i \in DOMAIN agents :
          pre_step_states[i].collapsed /\ agents[i].collapsed

\* C4 as claimed: no field of a collapsed community, was_targeted included,
\* changes in any later step.
TerminalStabilityAllFields ==
    [][\A i \in DOMAIN agents :
          agents[i].collapsed => agents'[i] = agents[i]]_vars

\* C4 as amended: no field of a collapsed community other than was_targeted
\* changes in any later step, and its was_targeted only goes from true to
\* false (the Deployer's reset).
TerminalStability ==
    [][\A i \in DOMAIN agents :
          agents[i].collapsed =>
             /\ agents'[i] = [agents[i] EXCEPT !.was_targeted = agents'[i].was_targeted]
             /\ agents'[i].was_targeted => agents[i].was_targeted]_vars

\* A community that was collapsed and targeted when a round began, and whose
\* flag the Deployer's step of that round has cleared.
TerminalStabilityWitness ==
    /\ RoundRan
    /\ \E i \in DOMAIN agents :
          /\ pre_step_states[i].collapsed /\ pre_step_states[i].was_targeted
          /\ agents[i].collapsed /\ ~agents[i].was_targeted
          /\ agents[i].wellbeing = pre_step_states[i].wellbeing

\* C5: the Deployer's dominance is within [1.0, 5.0] in every state.
DominanceBounds ==
    /\ tech_agent.tech_dominance >= 1 * DomScale
    /\ tech_agent.tech_dominance <= 5 * DomScale

\* The feedback rule has just run on a failure rate above 0.3 with the
\* dominance at its floor.
DominanceBoundsWitness ==
    /\ AfterDeployerStep
    /\ 10 * FailureCount > 3 * Cardinality(DOMAIN agents)
    /\ tech_agent.tech_dominance = 1 * DomScale

\* C6: the dominance that enters the perceived utility is the Deployer's
\* current dominance.
ClosedFeedbackLoop ==
    status = "constructed" => UtilityDominance(Self) = tech_agent.tech_dominance

\* C7: two simulations built with the same parameters and the same supplied
\* seed, stepped side by side, are in the same state after every step.
Determinism ==
    twin.status # "none" =>
        /\ agents = twin.agents
        /\ tech_agent = twin.tech_agent
        /\ network = twin.network
        /\ pending = twin.pending
        /\ steps = twin.steps

\* C8: under policy 'all', right after the Deployer's step a community is
\* targeted exactly if it is neither banned nor collapsed.
TargetingCoverage ==
    (AfterDeployerStep /\ tech_agent.deployment_policy = "all") =>
        \A i \in DOMAIN agents :
            agents[i].was_targeted = (~agents[i].banned /\ ~agents[i].collapsed)

\* Right after a Deployer step under 'all' with a banned and an eligible
\* community.
TargetingCoverageWitness ==
    /\ AfterDeployerStep /\ tech_agent.deployment_policy = "all"
    /\ \E i, j \in DOMAIN agents :
          /\ agents[i].banned /\ ~agents[i].was_targeted
          /\ ~agents[j].banned /\ agents[j].was_targeted

\* C9: under policy 'filtered', after a Deployer step every targeted
\* community has access >= 0.6, right after the step it is neither banned
\* nor collapsed, and a community with access < 0.6 is never adopted.
TargetingExclusivity ==
    tech_agent.deployment_policy = "filtered" =>
        \A i \in DOMAIN agents :
            /\ (steps > 0 /\ agents[i].was_targeted) =>
                   agents[i].digital_access_score >= HighAccess
            /\ (AfterDeployerStep /\ agents[i].was_targeted) =>
                   ~agents[i].banned /\ ~agents[i].collapsed
            /\ agents[i].digital_access_score < HighAccess => ~agents[i].adopted

\* Right after a later Deployer step under 'filtered': a targeted community,
\* and an eligible one below 0.6 that is passed over.
TargetingExclusivityWitness ==
    /\ AfterDeployerStep /\ tech_agent.deployment_policy = "filtered"
    /\ steps >= 2
    /\ \E i, j \in DOMAIN agents :
          /\ agents[i].was_targeted /\ agents[i].adopted
          /\ agents[j].digital_access_score < HighAccess
          /\ ~agents[j].banned /\ ~agents[j].was_targeted

\* C10: a community that is neither banned nor collapsed when a round begins
\* and has a neighbour that is collapsed then, is banned and not adopted when
\* the round ends.
PanicRule ==
    RoundRan =>
        \A a, b \in DOMAIN agents :
            (/\ b \in Neighbors(Self, a)
             /\ pre_step_states[a].collapsed
             /\ ~pre_step_states[b].banned /\ ~pre_step_states[b].collapsed)
            => agents[b].banned /\ ~agents[b].adopted

\* An adopter with full wellbeing and no suffering neighbour that a
\* neighbour's collapse has made ban.
PanicRuleWitness ==
    /\ RoundRan
    /\ \E a, b \in DOMAIN agents :
          /\ b \in Neighbors(Self, a)
          /\ pre_step_states[a].collapsed
          /\ ~pre_step_states[b].banned /\ pre_step_states[b].adopted
          /\ agents[b].banned /\ ~agents[b].collapsed
          /\ agents[b].wellbeing = WellbeingCap
          /\ \A n \in Neighbors(Self, b) :
                ~(pre_step_states[n].adopted
                    /\ pre_step_states[n].wellbeing < SufferingLevel)

\* Community i has run its cycle of the current round.
HasStepped(i) ==
    /\ status = "constructed" /\ steps > 0
    /\ DOMAIN pre_step_states = DOMAIN agents
    /\ i \in DOMAIN agents /\ i \notin pending

\* Community i entered the current round neither banned nor collapsed, so
\* its cycle of this round was not skipped.
WasActive(i) == ~pre_step_states[i].banned /\ ~pre_step_states[i].collapsed

\* C11: a community that enters a round neither banned nor collapsed and
\* whose wellbeing after the round's update is below the survival threshold
\* is collapsed, banned and not adopted once its cycle has run, hence at the
\* end of that round.
CollapseTransition ==
    \A i \in DOMAIN agents :
        (HasStepped(i) /\ WasActive(i) /\ agents[i].wellbeing < survival_threshold)
        => agents[i].collapsed /\ agents[i].banned /\ ~agents[i].adopted

\* An adopter whose three-round average fell below the ban threshold in the
\* very step that took its wellbeing below the survival threshold: the ban
\* came first, the collapse followed in the same step.
CollapseTransitionWitness ==
    /\ RoundRan
    /\ \E i \in DOMAIN agents :
          /\ WasActive(i) /\ pre_step_states[i].adopted
          /\ pre_step_states[i].wellbeing >= survival_threshold
          /\ agents[i].wellbeing < survival_threshold
          /\ Len(agents[i].past_wellbeing) = ban_window
          /\ SumSeq(agents[i].past_wellbeing) < ban_threshold * ban_window
          /\ agents[i].collapsed

\* C12: a community that enters a round banned but not collapsed still has
\* its wellbeing update run in that round: unless its wellbeing is already 0,
\* the round lowers it by a decline of 2.5 to 4.5.
BannedWellbeingContinues ==
    RoundRan =>
        \A i \in DOMAIN agents :
            (pre_step_states[i].banned /\ ~pre_step_states[i].collapsed)
            => \/ /\ pre_step_states[i].wellbeing = 0
                  /\ agents[i].wellbeing = 0
               \/ agents[i].wellbeing < pre_step_states[i].wellbeing

\* C13: every step of the simulation is either the start of a round, which
\* is taken only when every cycle of the round before has run, advances the
\* round count by one, runs the whole Deployer step (retarget, then dominance
\* update) and leaves every community's cycle to be run; or the cycle of one
\* community that has not yet run in this round, which leaves the round
\* count, the Deployer and every other community alone; or a raised error.
FixedRoundOrder ==
    [][\/ /\ steps' = steps + 1
          /\ pending = {} /\ pending' = DOMAIN agents
          /\ \E d \in TechDraws(Self) :
                LET s == TechSuperpowerAgent_step(Self, d)
                IN agents' = s.agents /\ tech_agent' = s.tech_agent
       \/ /\ steps' = steps
          /\ tech_agent' = tech_agent
          /\ \E id \in pending :
                /\ pending' = pending \ {id}
                /\ \E d \in Draws :
                      agents' = [agents EXCEPT ![id] = ReceivingAgent_step(Self, id, d)]
       \/ /\ status' = "raised"
          /\ UNCHANGED <<agents, tech_agent, pending, steps>>]_vars

\* The second round of four communities has run to its end, and the Deployer's
\* feedback rule has moved the dominance.
FixedRoundOrderWitness ==
    /\ RoundRan /\ steps = 2
    /\ Cardinality(DOMAIN agents) = RingDegree
    /\ tech_agent.tech_dominance # params.tech_dominance
    /\ \E i \in DOMAIN agents :
          agents[i].adopted /\ Len(agents[i].past_wellbeing) = steps

KnownPolicies == {"all", "random", "filtered"}

\* C14: under a policy other than 'all', 'random' and 'filtered', once the
\* Deployer has stepped the target set is empty and no community is
\* targeted, and no community is ever adopted.
UnknownPolicyDeploysNothing ==
    tech_agent.deployment_policy \notin KnownPolicies =>
        /\ (status = "constructed" /\ steps > 0) =>
              /\ tech_agent.deployed_agents = <<>>
              /\ \A i \in DOMAIN agents : ~agents[i].was_targeted
        /\ \A i \in DOMAIN agents : ~agents[i].adopted

\* Two rounds under an unknown policy: a community that adopts whenever it
\* is targeted has only declined.
UnknownPolicyDeploysNothingWitness ==
    /\ RoundRan /\ steps >= 2
    /\ tech_agent.deployment_policy \notin KnownPolicies
    /\ \E i \in DOMAIN agents :
          /\ agents[i] # pre_step_states[i]
          /\ \A n \in Noises :
                decide_to_adopt([Self EXCEPT !.agents[i].was_targeted = TRUE],
                                i, [noise |-> n]).adopted
          /\ ~agents[i].adopted /\ ~agents[i].banned
          /\ agents[i].wellbeing < pre_step_states[i].wellbeing

\* The constructor input is malformed: a non-positive community count or a
\* network kind other than the small-world one.
Malformed ==
    params.num_receiving_agents <= 0 \/ params.network_type # "small_world"

\* C15: a simulation constructed from malformed input has raised an error
\* at construction: it is never a constructed simulation.
FailFastConstruction == Malformed => status = "raised"

\* The state of a community as one of NotAdopted, Adopted, Banned, Collapsed.
CommunityState(a) ==
    IF a.collapsed THEN "Collapsed"
    ELSE IF a.banned THEN "Banned"
    ELSE IF a.adopted THEN "Adopted"
    ELSE "NotAdopted"

StateTransitions ==
    {<<"NotAdopted", "Adopted">>, <<"NotAdopted", "Banned">>,
     <<"Adopted", "Banned">>, <<"NotAdopted", "Collapsed">>,
     <<"Adopted", "Collapsed">>}

\* C16: from the start of a round (the end of the round before) to any later
\* point of that round, its end included, a community keeps its state or
\* takes one of the transitions NotAdopted->Adopted, NotAdopted->Banned,
\* Adopted->Banned, NotAdopted->Collapsed, Adopted->Collapsed; banned does
\* not return to false, a banned community is not adopted, and adopted goes
\* from true to false only when banned goes from false to true.
CommunityStateMachine ==
    (status = "constructed" /\ steps > 0) =>
        \A i \in DOMAIN agents :
            LET before == pre_step_states[i]
                after == agents[i]
            IN /\ \/ CommunityState(before) = CommunityState(after)
                  \/ <<CommunityState(before), CommunityState(after)>>
                         \in StateTransitions
               /\ before.banned => after.banned /\ ~after.adopted
               /\ (before.adopted /\ ~after.adopted)
                     => ~before.banned /\ after.banned

\* One round in which an adopter collapses, another adopter is banned without
\* collapsing, and a community that never adopted is banned.
CommunityStateMachineWitness ==
    /\ RoundRan
    /\ \E i, j, k \in DOMAIN agents :
          /\ CommunityState(pre_step_states[i]) = "Adopted"
          /\ CommunityState(agents[i]) = "Collapsed"
          /\ CommunityState(pre_step_states[j]) = "Adopted"
          /\ CommunityState(agents[j]) = "Banned"
          /\ CommunityState(pre_step_states[k]) = "NotAdopted"
          /\ CommunityState(agents[k]) = "Banned"

\* Neighbour a gives community b a reason for a network ban, as a reads now.
BanReason(a) ==
    \/ agents[a].collapsed
    \/ /\ agents[a].adopted /\ ~agents[a].banned
       /\ agents[a].wellbeing < SufferingLevel

\* C17: a community b that runs its cycle reads its neighbours as they are at
\* that moment.  If a neighbour is by then collapsed or a suffering adopter,
\* be it since earlier in the same round, b is banned by this cycle; and if
\* this cycle bans b without b collapsing
\* and without b's own three-round average being below the ban threshold,
\* some neighbour is collapsed or a suffering adopter at that moment: a
\* collapse that comes later in the round does not ban b in this round.
ReadAfterShuffleOrder ==
    [][\A b \in pending \ pending' :
          (~agents[b].banned /\ ~agents[b].collapsed) =>
             /\ (\E a \in Neighbors(Self, b) : BanReason(a))
                => agents'[b].banned
             /\ (/\ agents'[b].banned /\ ~agents'[b].collapsed
                 /\ ~(/\ Len(agents'[b].past_wellbeing) = ban_window
                      /\ SumSeq(agents'[b].past_wellbeing)
                            < ban_threshold * ban_window))
                => \E a \in Neighbors(Self, b) : BanReason(a)]_vars

\* A round in which community a collapsed: one neighbour ran its cycle
\* before a and ends the round unbanned, another ran after a and was banned
\* by the collapse alone.
ReadAfterShuffleOrderWitness ==
    /\ RoundRan
    /\ \E a, b1, b2 \in DOMAIN agents :
          /\ {b1, b2} \subseteq Neighbors(Self, a)
          /\ ~pre_step_states[a].collapsed /\ agents[a].collapsed
          /\ pre_step_states[a].wellbeing >= SufferingLevel
          /\ ~agents[b1].banned
          /\ ~pre_step_states[b2].banned
          /\ agents[b2].banned /\ ~agents[b2].collapsed

\* The simulation as the round began, with every community's was_targeted
\* replaced by flag.
RoundStart(flag) ==
    [Self EXCEPT !.agents = [i \in DOMAIN pre_step_states |->
                                [pre_step_states[i] EXCEPT !.was_targeted = flag]]]

\* C18: right after every Deployer step, under every policy, the targeted
\* communities are exactly the members of the Deployer's target set, every
\* member is neither banned nor collapsed, no member occurs twice, and the
\* targeting is the same whatever the communities' was_targeted flags were
\* before the step.
ResetThenSet ==
    AfterDeployerStep =>
        LET targets == Range(tech_agent.deployed_agents)
        IN /\ \A i \in DOMAIN agents : agents[i].was_targeted = (i \in targets)
           /\ \A i \in targets : ~agents[i].banned /\ ~agents[i].collapsed
           /\ Cardinality(targets) = Len(tech_agent.deployed_agents)
           /\ \A flag \in BOOLEAN :
                 \E d \in TechDraws(RoundStart(flag)) :
                    LET s == deploy_technology(RoundStart(flag), d)
                    IN /\ s.agents = agents
                       /\ s.tech_agent.deployed_agents = tech_agent.deployed_agents

\* Right after a later Deployer step under 'random': a community targeted
\* now but not in the round before, beside one targeted in the round before
\* and passed over now although it is still eligible.
ResetThenSetWitness ==
    /\ AfterDeployerStep /\ steps >= 2
    /\ tech_agent.deployment_policy = "random"
    /\ \E i, j \in DOMAIN agents :
          /\ agents[i].was_targeted /\ ~pre_step_states[i].was_targeted
          /\ ~agents[j].was_targeted /\ pre_step_states[j].was_targeted
          /\ ~agents[j].banned

\* ------------------------------------------- the Deployer's random quota
\* Simulations of up to MaxCommunities communities without a network under
\* policy 'random', taken through the Deployer's step of their first round.
QuotaRosters(n) == {types \in [1..n -> 1..Len(CommunityTypes)] :
                      \A i, j \in 1..n : i <= j => types[i] <= types[j]}

QuotaInputs ==
    {in \in [num_receiving_agents : 1..MaxCommunities, implementation_cost : Costs,
             cultural_fit : CulturalFits, deployment_policy : {"random"},
             tech_dominance : Dominances, network_type : NetworkTypes] :
        in.network_type # "small_world"}

InitQuota ==
    /\ \E in \in QuotaInputs : \E types \in QuotaRosters(in.num_receiving_agents) :
          LET s == Construct(in, types)
          IN /\ agents = s.agents
             /\ tech_agent = s.tech_agent
             /\ network = s.network
             /\ params = s.params
             /\ pending = s.pending
             /\ steps = s.steps
             /\ status = s.status
    /\ pre_step_states = <<>>
    /\ rng = NoStream
    /\ twin = NoTwin

\* The first call of model.step(), up to the shuffle.
FirstModelStep == steps = 0 /\ ModelStep

NextQuota == FirstModelStep

SpecQuota == InitQuota /\ [][NextQuota]_vars

\* The Deployer's target set holds min(H, floor(k/2)) communities of access
\* >= 0.6 and min(L, k - floor(k/2)) of access < 0.4, no others and none
\* twice, where H and L count the eligible communities of either group.
QuotaMet(k) ==
    LET eligible == {i \in DOMAIN agents : ~agents[i].banned /\ ~agents[i].collapsed}
        high == {i \in eligible : agents[i].digital_access_score >= HighAccess}
        low == {i \in eligible : agents[i].digital_access_score < LowAccess}
        targets == Range(tech_agent.deployed_agents)
    IN /\ Cardinality(targets \cap high) = Min2(Cardinality(high), k \div 2)
       /\ Cardinality(targets \cap low) = Min2(Cardinality(low), k - k \div 2)
       /\ targets \subseteq high \cup low
       /\ Len(tech_agent.deployed_agents) = Cardinality(targets)

EligibleCount ==
    Cardinality({i \in DOMAIN agents : ~agents[i].banned /\ ~agents[i].collapsed})

\* C19 as claimed: under 'random' the quota is k = 50% of the n eligible
\* communities rounded down, so k = 0 when n is 0 or 1.
RandomQuotaHalf ==
    (AfterDeployerStep /\ tech_agent.deployment_policy = "random")
        => QuotaMet(EligibleCount \div 2)

\* C19 as amended: under 'random' the quota is k = 50% of the n eligible
\* communities rounded down, but at least 1.
RandomQuota ==
    (AfterDeployerStep /\ tech_agent.deployment_policy = "random")
        => QuotaMet(Max2(1, EligibleCount \div 2))

\* A single eligible community, of access < 0.4, is targeted: the quota is 1,
\* its high-access share 0.
RandomQuotaWitness ==
    /\ AfterDeployerStep /\ tech_agent.deployment_policy = "random"
    /\ EligibleCount = 1
    /\ Len(tech_agent.deployed_agents) = 1
    /\ \A i \in Range(tech_agent.deployed_agents) :
          agents[i].digital_access_score < LowAccess

\* ------------------------------------------ the Deployer's feedback rule
\* Simulations of the smallest small-world network under policy 'all',
\* started at the bounds of the dominance and on either side of its baseline.
FeedbackDominances ==
    {1 * DomScale, 3 * DomScale - DomScale \div 50,
     3 * DomScale + DomScale \div 50, 5 * DomScale}

FeedbackInputs ==
    [num_receiving_agents : {RingDegree}, implementation_cost : Costs,
     cultural_fit : CulturalFits, deployment_policy : {"all"},
     tech_dominance : FeedbackDominances, network_type : {"small_world"}]

InitFeedback ==
    /\ \E in \in FeedbackInputs : \E types \in Rosters(in.num_receiving_agents) :
          LET s == Construct(in, types)
          IN /\ agents = s.agents
             /\ tech_agent = s.tech_agent
             /\ network = s.network
             /\ params = s.params
             /\ pending = s.pending
             /\ steps = s.steps
             /\ status = s.status
    /\ pre_step_states = <<>>
    /\ rng = NoStream
    /\ twin = NoTwin

NextFeedback == ModelStep \/ AgentStep

SpecFeedback == InitFeedback /\ [][NextFeedback]_vars

\* The counts the feedback rule reads, over the communities c.
AdoptedCount(c) == Cardinality({i \in DOMAIN c : c[i].adopted /\ ~c[i].banned})
BannedPlusCollapsed(c) ==
    Cardinality({i \in DOMAIN c : c[i].banned})
      + Cardinality({i \in DOMAIN c : c[i].collapsed})

\* The rule of the claim, with s = A / D and f = F / T, as a relation between
\* the dominance d before and d2 after the step; every comparison is
\* multiplied out, so nothing is rounded.
FeedbackRule(d, d2, A, F, T, D) ==
    IF 10 * F > 3 * T
    THEN 100 * T * d2 = Max2(100 * T * DomScale,
                             100 * T * d - DomScale * (30 * F - 9 * T))
    ELSE IF 10 * A > 4 * D
    THEN 100 * D * d2 = Min2(100 * D * 5 * DomScale,
                             100 * D * d + DomScale * (20 * A - 8 * D))
    ELSE IF 10 * F >= T /\ 10 * F < 3 * T /\ 10 * A > 2 * D /\ 10 * A < 4 * D
    THEN 20 * d2 = (IF d > 3 * DomScale THEN Max2(60 * DomScale, 20 * d - DomScale)
                    ELSE IF d < 3 * DomScale THEN Min2(60 * DomScale, 20 * d + DomScale)
                    ELSE 20 * d)
    ELSE d2 = d

\* C20: every Deployer step takes the dominance from d to the value the
\* feedback rule gives for the adopted, banned and collapsed counts of the
\* end of the round before, the community total and the size of the target
\* set the step has just chosen.
DominanceFeedback ==
    [][steps' = steps + 1 =>
          FeedbackRule(tech_agent.tech_dominance, tech_agent'.tech_dominance,
                       AdoptedCount(agents), BannedPlusCollapsed(agents),
                       Cardinality(DOMAIN agents),
                       Len(tech_agent'.deployed_agents) + 1)]_vars

\* Right after a Deployer step on mixed outcomes (failure rate in [0.1, 0.3),
\* success rate in (0.2, 0.4)) that has moved a dominance within 0.05 of the
\* baseline onto the baseline.
DominanceFeedbackWitness ==
    /\ AfterDeployerStep
    /\ 10 * BannedPlusCollapsed(agents) >= Cardinality(DOMAIN agents)
    /\ 10 * BannedPlusCollapsed(agents) < 3 * Cardinality(DOMAIN agents)
    /\ 10 * AdoptedCount(agents) > 2 * (Len(tech_agent.deployed_agents) + 1)
    /\ 10 * AdoptedCount(agents) < 4 * (Len(tech_agent.deployed_agents) + 1)
    /\ params.tech_dominance # 3 * DomScale
    /\ tech_agent.tech_dominance = 3 * DomScale

\* C21: a community that is not targeted when its cycle runs does not go
\* from not adopted to adopted in that cycle, and the cycle does not draw the
\* randomness of the adoption decision; nor does the cycle of a community
\* that is already adopted or banned.
AdoptionOnlyWhenTargeted ==
    [][\A b \in pending \ pending' :
          (~agents[b].was_targeted \/ agents[b].adopted \/ agents[b].banned) =>
             /\ agents'[b].adopted => agents[b].adopted
             /\ "randomness" \notin rng'.drawn]_vars

\* An untargeted community that would adopt if it were targeted has run its
\* cycle, the first of its round: it is not adopted, and the cycle drew the
\* decline alone.
AdoptionOnlyWhenTargetedWitness ==
    /\ status = "constructed" /\ steps > 0
    /\ rng.drawn = {"decline"}
    /\ \E i \in DOMAIN agents :
          /\ DOMAIN agents \ pending = {i}
          /\ ~agents[i].was_targeted /\ ~agents[i].adopted /\ ~agents[i].banned
          /\ Len(agents[i].past_wellbeing) = steps
          /\ \A n \in Noises :
                decide_to_adopt([Self EXCEPT !.agents[i].was_targeted = TRUE],
                                i, [noise |-> n]).adopted

\* ------------------------------------------------- the adoption decision
\* Simulations under policy 'all', of one community without a network or of
\* the smallest small-world network, through their first AdoptionRounds
\* rounds; the draws of every cycle are recorded.  The communities: the one
\* of the single-community scenario (infrastructure 12, access 1.0,
\* resilience 0.05, threshold 0.1) and two of weak infrastructure whose
\* decisions hang on the noise and on their neighbours.  The scenario's cost
\* 1 and fit 1.0 go with the community on its own; the network runs at cost
\* 5, fit 0.8 and initial dominance 1.0.
AdoptionTypes ==
    << ReceivingAgent(5, 120, 10, 10),
       ReceivingAgent(5, 20, 20, 5),
       ReceivingAgent(5, 20, 10, 5) >>

AdoptionRosters(n) == {types \in [1..n -> 1..Len(AdoptionTypes)] :
                         /\ \A i, j \in 1..n : i <= j => types[i] <= types[j]
                         /\ \A k \in 1..Len(AdoptionTypes) :
                               2 * Cardinality({i \in 1..n : types[i] = k}) <= n + 1}

AdoptionInputs ==
    {in \in [num_receiving_agents : {1, RingDegree}, implementation_cost : {1, 5},
             cultural_fit : {8, 10}, deployment_policy : {"all"},
             tech_dominance : Dominances, network_type : NetworkTypes] :
        /\ (in.network_type = "small_world") = (in.num_receiving_agents = RingDegree)
        /\ (in.implementation_cost = 1) = (in.cultural_fit = 10)
        /\ in.implementation_cost = 1 => in.num_receiving_agents = 1
        /\ in.num_receiving_agents = RingDegree => in.tech_dominance = 1 * DomScale}

InitAdopt ==
    /\ \E in \in AdoptionInputs : \E types \in AdoptionRosters(in.num_receiving_agents) :
          LET s == [Construct(in, types) EXCEPT
                       !.agents = [i \in 1..in.num_receiving_agents |->
                                      AdoptionTypes[types[i]]]]
          IN /\ agents = s.agents
             /\ tech_agent = s.tech_agent
             /\ network = s.network
             /\ params = s.params
             /\ pending = s.pending
             /\ steps = s.steps
             /\ status = s.status
    /\ pre_step_states = <<>>
    /\ rng = NoStream
    /\ twin = NoTwin

EarlyModelStep == steps < AdoptionRounds /\ ModelStep

\* One iteration of the loop, with the draws of the cycle kept in rng.
RecordedAgentStep ==
    /\ status = "constructed"
    /\ \E id \in pending : \E d \in AgentDraws(Self, id) :
          /\ Apply(agent_turn(Self, id, d))
          /\ rng' = [rng EXCEPT !.d = d, !.drawn = DrawnNames(Self, id, d)]
    /\ UNCHANGED <<pre_step_states, twin>>

NextAdopt == EarlyModelStep \/ RecordedAgentStep

SpecAdopt == InitAdopt /\ [][NextAdopt]_vars

\* perceived_utility + peer_influence - 0.5 * cultural_resilience + noise >
\* adoption_threshold for community b as it is now, noise in tenths; both
\* sides are multiplied by 2 * UtilityDen and the neighbour count.
ScoreExceedsThreshold(b, noise) ==
    LET u == calculate_perceived_utility(Self, b)
        p == calculate_peer_influence(Self, b)
        ud == UtilityDen(Self)
    IN 2 * u * p[2] + 2 * ud * p[1]
          + (ud \div 5) * noise * p[2]
       > (ud \div 50) * agents[b].adoption_threshold * p[2]
          + (ud \div 100) * agents[b].cultural_resilience * p[2]

\* The cycle that is running has set adopted on community b: b ends the
\* cycle adopted, or the cycle's wellbeing update has worn b's infrastructure
\* as an adopter's before a ban of the same cycle cleared the flag again.
BecomesAdopted(b) ==
    \/ agents'[b].adopted
    \/ agents'[b].infrastructure_strength < agents[b].infrastructure_strength

\* C22: a targeted community that is not adopted, banned or collapsed becomes
\* adopted in its cycle exactly if perceived_utility + peer_influence
\* - 0.5 * cultural_resilience + noise > adoption_threshold for the noise the
\* cycle drew, which is within [-0.2, 0.3]; so it becomes adopted whenever the
\* inequality holds with the noise at -0.2.
AdoptionRule ==
    [][\A b \in pending \ pending' :
          (/\ agents[b].was_targeted /\ ~agents[b].adopted
           /\ ~agents[b].banned /\ ~agents[b].collapsed) =>
             /\ "randomness" \in rng'.drawn
             /\ rng'.d.noise >= -2 /\ rng'.d.noise <= 3
             /\ BecomesAdopted(b) <=> ScoreExceedsThreshold(b, rng'.d.noise)
             /\ ScoreExceedsThreshold(b, -2) => BecomesAdopted(b)]_vars

\* The single community of the scenario (access 1.0, infrastructure 12,
\* resilience 0.05, threshold 0.1, cost 1, fit 1.0) has drawn the noise -0.2
\* in its first round and is adopted.
AdoptionRuleWitness ==
    /\ status = "constructed" /\ steps = 1 /\ pending = {}
    /\ "randomness" \in rng.drawn /\ rng.d.noise = -2
    /\ params.implementation_cost = 1 /\ params.cultural_fit = 10
    /\ DOMAIN agents = {1}
    /\ agents[1].was_targeted /\ agents[1].adopted
    /\ agents[1].cultural_resilience = 5 /\ agents[1].adoption_threshold = 10
    /\ agents[1].digital_access_score = 10
    /\ agents[1].infrastructure_strength + WearPerRound = 120

\* ------------------------------------------------------------ the ban window
\* The cycle of community b was not skipped: b entered it neither banned nor
\* collapsed.
Steps(b) == ~agents[b].banned /\ ~agents[b].collapsed

\* The cycle of b has banned it, b has not collapsed, and no neighbour gives
\* the network rule a reason: the ban is the post-adoption one.
PostAdoptionBan(b) ==
    /\ Steps(b) /\ agents'[b].banned /\ ~agents'[b].collapsed
    /\ \A n \in Neighbors(Self, b) : ~BanReason(n)

\* C23: the cycle of a community that steps appends its wellbeing to the
\* history, whose length after the community's k-th step is min(k, 3) (a
\* skipped cycle leaves the history alone); a post-adoption ban comes only to
\* a community that is adopted at that moment and whose history holds exactly
\* 3 entries of mean below 65, hence never in the first two rounds.
BanWindow ==
    [][\A b \in pending \ pending' :
          LET before == agents[b].past_wellbeing
              after == agents'[b].past_wellbeing
          IN /\ Steps(b) =>
                   /\ Len(after) = Min2(Len(before) + 1, ban_window)
                   /\ Len(after) = Min2(steps, ban_window)
                   /\ after[Len(after)] = agents'[b].wellbeing
             /\ ~Steps(b) => after = before
             /\ PostAdoptionBan(b) =>
                   /\ agents'[b].infrastructure_strength
                         = agents[b].infrastructure_strength - WearPerRound
                   /\ Len(after) = ban_window
                   /\ SumSeq(after) < ban_threshold * ban_window
                   /\ steps > 2]_vars

\* A community without neighbours is banned, not collapsed, by a step later
\* than its second, the three values of its history averaging below 65.
BanWindowWitness ==
    /\ status = "constructed" /\ steps > 2
    /\ \E i \in DOMAIN agents :
          /\ HasStepped(i) /\ WasActive(i)
          /\ Neighbors(Self, i) = {}
          /\ agents[i].banned /\ ~agents[i].collapsed
          /\ Len(agents[i].past_wellbeing) = ban_window
          /\ SumSeq(agents[i].past_wellbeing) < ban_threshold * ban_window

\* ------------------------------------------------- the suffering neighbour
\* Neighbour n is adopted, neither banned nor collapsed, and its wellbeing is
\* below 70.
SufferingAdopter(n) ==
    /\ agents[n].adopted /\ ~agents[n].banned /\ ~agents[n].collapsed
    /\ agents[n].wellbeing < SufferingLevel

\* The post-adoption rule has fired in the cycle of b: b was adopted at its
\* wellbeing update and its history is full with a mean below 65.
PostAdoptionRuleFired(b) ==
    /\ agents'[b].infrastructure_strength < agents[b].infrastructure_strength
    /\ Len(agents'[b].past_wellbeing) = ban_window
    /\ SumSeq(agents'[b].past_wellbeing) < ban_threshold * ban_window

\* C24: a community b steps, the post-adoption rule does not fire and no
\* neighbour of b is collapsed.  Then a suffering adopter among the
\* neighbours bans b, adopted or not; and if b does not collapse in the
\* step, it is banned by it only if there is such a neighbour, so never when
\* it has no neighbours at all.
SufferingNeighbourBan ==
    [][\A b \in pending \ pending' :
          (/\ Steps(b) /\ ~PostAdoptionRuleFired(b)
           /\ \A n \in Neighbors(Self, b) : ~agents[n].collapsed) =>
             /\ (\E n \in Neighbors(Self, b) : SufferingAdopter(n)) =>
                    agents'[b].banned /\ ~agents'[b].adopted
             /\ ~agents'[b].collapsed =>
                    (agents'[b].banned <=>
                        \E n \in Neighbors(Self, b) : SufferingAdopter(n))
             /\ (Neighbors(Self, b) = {} /\ ~agents'[b].collapsed) =>
                    ~agents'[b].banned]_vars

\* A community that never adopted (its infrastructure is untouched) has
\* stepped in this round and is banned without having collapsed, none of its
\* neighbours being collapsed and one of them a suffering adopter.
SufferingNeighbourBanWitness ==
    /\ status = "constructed" /\ steps > 0
    /\ \E i \in DOMAIN agents :
          /\ HasStepped(i) /\ WasActive(i)
          /\ ~pre_step_states[i].adopted
          /\ agents[i].infrastructure_strength
                = pre_step_states[i].infrastructure_strength
          /\ agents[i].banned /\ ~agents[i].collapsed
          /\ \A n \in Neighbors(Self, i) : ~agents[n].collapsed
          /\ \E n \in Neighbors(Self, i) : SufferingAdopter(n)

\* ----------------------------------------------------------- peer influence
\* The communities linked to i in the network.
NeighboursOf(i) == {n \in DOMAIN agents : network.exists /\ i \in DOMAIN network.adj
                                             /\ n \in network.adj[i]}

\* C25: in every state of a constructed simulation the peer influence of a
\* community with n >= 1 neighbours, a of them adopted and b banned, is
\* (0.4*a - 0.3*b)/n; it is 0, computed without a division by zero, for a
\* community with no neighbours or outside the network; and it lies in
\* [-0.3, 0.4].
PeerInfluence ==
    status = "constructed" =>
       \A i \in DOMAIN agents :
          LET p == calculate_peer_influence(Self, i)
              n == Cardinality(NeighboursOf(i))
              a == Cardinality({m \in NeighboursOf(i) : agents[m].adopted})
              b == Cardinality({m \in NeighboursOf(i) : agents[m].banned})
          IN /\ p[2] > 0
             /\ n = 0 => p[1] = 0
             /\ n >= 1 => 10 * n * p[1] = (4 * a - 3 * b) * p[2]
             /\ -3 * p[2] <= 10 * p[1] /\ 10 * p[1] <= 4 * p[2]

\* A community all of whose neighbours are banned: its peer influence is the
\* lower end -0.3 of the range.
PeerInfluenceWitness ==
    /\ status = "constructed"
    /\ \E i \in DOMAIN agents :
          /\ NeighboursOf(i) # {}
          /\ \A m \in NeighboursOf(i) : agents[m].banned
          /\ 10 * calculate_peer_influence(Self, i)[1]
                = -3 * calculate_peer_influence(Self, i)[2]

\* ------------------------------------------------- infrastructure erosion
\* Community b is adopted when its cycle reaches the wellbeing update: the
\* cycle is not skipped, and b was adopted before it or its decision, taken
\* with the noise drawn in this cycle, is to adopt.
AdoptedAtUpdate(b) ==
    /\ Steps(b)
    /\ \/ agents[b].adopted
       \/ /\ agents[b].was_targeted
          /\ ScoreExceedsThreshold(b, rng'.d.noise)

\* C26: no step raises any community's infrastructure_strength; the cycle of
\* a community that is adopted at its wellbeing update lowers it by exactly
\* 0.4, the cycle of any other community (not adopted, banned or collapsed)
\* leaves it as it is, and nothing but a community's own cycle changes it.
InfrastructureErosion ==
    [][/\ \A i \in DOMAIN agents :
             /\ i \in DOMAIN agents'
             /\ agents'[i].infrastructure_strength <= agents[i].infrastructure_strength
       /\ \A i \in DOMAIN agents \ (pending \ pending') :
             agents'[i].infrastructure_strength = agents[i].infrastructure_strength
       /\ \A b \in pending \ pending' :
             agents'[b].infrastructure_strength =
                IF AdoptedAtUpdate(b)
                THEN agents[b].infrastructure_strength - WearPerRound
                ELSE agents[b].infrastructure_strength]_vars

\* Both cases side by side in the second round: one community has been
\* adopted at both of its updates and has lost 0.8, another has stepped
\* without adopting and has lost nothing.
InfrastructureErosionWitness ==
    /\ status = "constructed" /\ steps = 2
    /\ \E i, j \in DOMAIN agents :
          /\ Len(agents[i].past_wellbeing) = 2
          /\ agents[i].infrastructure_strength \in
                {t.infrastructure_strength - 2 * WearPerRound : t \in Range(AdoptionTypes)}
          /\ agents[i].infrastructure_strength \notin
                {t.infrastructure_strength : t \in Range(AdoptionTypes)}
          /\ Len(agents[j].past_wellbeing) >= 1
          /\ ~agents[j].adopted /\ ~agents[j].banned
          /\ agents[j].infrastructure_strength \in
                {t.infrastructure_strength : t \in Range(AdoptionTypes)}

\* ------------------------------------------------------------ frame effects
\* C27: the cycle of a community b changes no field of any other community,
\* nothing of the Deployer (dominance, policy, target set), nothing of the
\* network and none of the model's parameters; and the Deployer's dominance
\* changes only in the step that runs the Deployer, before any community's
\* cycle of the round, a step that changes no community beyond its
\* was_targeted flag.
OwnStateOnlyMutation ==
    [][/\ \A b \in pending \ pending' :
             /\ DOMAIN agents' = DOMAIN agents
             /\ \A i \in DOMAIN agents \ {b} : agents'[i] = agents[i]
             /\ tech_agent' = tech_agent
             /\ network' = network
             /\ params' = params
       /\ tech_agent'.tech_dominance # tech_agent.tech_dominance =>
             /\ pending = {} /\ steps' = steps + 1
             /\ pending' = DOMAIN agents
             /\ network' = network
             /\ \A i \in DOMAIN agents :
                   agents'[i] = [agents[i] EXCEPT
                                    !.was_targeted = agents'[i].was_targeted]]_vars

\* The Deployer's dominance has moved away from its initial value, and in the
\* running round one community has been banned by its own cycle while a
\* neighbour that has not stepped yet is as it was when the round began.
OwnStateOnlyMutationWitness ==
    /\ status = "constructed" /\ steps > 0
    /\ DOMAIN pre_step_states = DOMAIN agents
    /\ tech_agent.tech_dominance # params.tech_dominance
    /\ \E i \in DOMAIN agents \ pending : \E j \in pending :
          /\ j \in Neighbors(Self, i)
          /\ agents[i].banned /\ ~pre_step_states[i].banned
          /\ [agents[j] EXCEPT !.was_targeted = pre_step_states[j].was_targeted]
                = pre_step_states[j]

\* ------------------------------------------------- collapse and wellbeing
\* C28: at the end of every round a community is collapsed if and only if
\* its wellbeing is below the survival threshold 35: a collapsed community
\* stays below it, and every other community, banned or not, is at or above
\* it.
CollapsedIffBelowSurvival ==
    RoundEnd =>
       \A i \in DOMAIN agents :
          agents[i].collapsed <=> agents[i].wellbeing < survival_threshold

\* The end of a round with a community that collapsed in an earlier round,
\* one that is banned without being collapsed, and one still active.
CollapsedIffBelowSurvivalWitness ==
    /\ RoundRan
    /\ \E i, j, k \in DOMAIN agents :
          /\ pre_step_states[i].collapsed /\ agents[i].collapsed
          /\ agents[i].wellbeing < survival_threshold
          /\ agents[j].banned /\ ~agents[j].collapsed
          /\ agents[j].wellbeing >= survival_threshold
          /\ ~agents[k].banned /\ ~agents[k].collapsed
          /\ agents[k].wellbeing >= survival_threshold

\* ------------------------------------------------------ failures only grow
\* C30: no step takes a community out of the banned or the collapsed set, so
\* the failure count the Deployer reads (banned plus collapsed, over a
\* constant total) never falls from one step to the next; and from the
\* moment it exceeds 0.3 of the total, no step raises the dominance: the
\* Deployer step that sees such a failure rate, and every later one, leaves
\* the dominance where it is or lowers it.
FailuresOnlyGrow ==
    [][/\ \A i \in DOMAIN agents :
             /\ agents[i].banned => agents'[i].banned
             /\ agents[i].collapsed => agents'[i].collapsed
       /\ DOMAIN agents' = DOMAIN agents
       /\ BannedPlusCollapsed(agents') >= BannedPlusCollapsed(agents)
       /\ 10 * BannedPlusCollapsed(agents) > 3 * Cardinality(DOMAIN agents) =>
             tech_agent'.tech_dominance <= tech_agent.tech_dominance]_vars

\* Right after a Deployer step that saw a failure rate above 0.3 together
\* with a success rate above 0.4: the dominance is below its initial value.
FailuresOnlyGrowWitness ==
    /\ AfterDeployerStep /\ steps > 1
    /\ 10 * BannedPlusCollapsed(agents) > 3 * Cardinality(DOMAIN agents)
    /\ 10 * AdoptedCount(agents) > 4 * (Len(tech_agent.deployed_agents) + 1)
    /\ tech_agent.tech_dominance < params.tech_dominance

\* --------------------------------------------------------------- absorption
\* Long runs: a community on its own (no network) under every policy, and
\* the smallest small-world network under policy 'all'.  The community on
\* its own takes the extreme values of every draw: noise -0.2 or 0.3, a
\* crisis or none, crisis damage 15 or 30, decline 2.5 or 4.5.  Its traits:
\* the privileged early adopter, a privileged community whose adoption hangs
\* on the noise, so that it may adopt late, and a community that never
\* adopts.
AbsorbTypes ==
    << ReceivingAgent(5, 120, 10, 7),
       ReceivingAgent(80, 80, 50, 7),
       ReceivingAgent(80, 20, 100, 2) >>

ExtremeDraws == [noise : {-2, 3}, crisis : BOOLEAN,
                 crisis_damage : {150, 300}, decline : {25, 45}]

\* The draws of a cycle in a long run; a value the cycle does not draw is
\* left at the least value.
AbsorbDraws(s, id) ==
    LET a == s.agents[id]
        skipped == a.banned \/ a.collapsed
        decides == ~skipped /\ a.was_targeted /\ ~a.adopted
    IN IF s.network.exists THEN AgentDraws(s, id)
       ELSE {d \in ExtremeDraws :
               LET adopts == IF decides THEN decide_to_adopt(s, id, d).adopted
                             ELSE a.adopted
               IN /\ decides \/ d.noise = -2
                  /\ (~skipped /\ adopts) \/ ~d.crisis
                  /\ (~skipped /\ adopts /\ d.crisis) \/ d.crisis_damage = 150
                  /\ (~skipped /\ ~adopts) \/ d.decline = 25}

AbsorbInputs ==
    {in \in ConstructorInputs :
        \/ in.num_receiving_agents = 1 /\ in.network_type = "lattice"
        \/ /\ in.num_receiving_agents = RingDegree /\ in.network_type = "small_world"
           /\ in.deployment_policy = "all"}

\* Every kind of community on its own; in the network, fragile adopters with
\* communities that never adopt.
AbsorbRosters(n) ==
    IF n = 1 THEN Rosters(n)
    ELSE {types \in Rosters(n) : \A i \in 1..n : types[i] # 1}

InitAbsorb ==
    /\ \E in \in AbsorbInputs : \E types \in AbsorbRosters(in.num_receiving_agents) :
          LET s == [Construct(in, types) EXCEPT
                       !.agents = [i \in 1..in.num_receiving_agents |->
                                      IF in.num_receiving_agents = 1
                                      THEN AbsorbTypes[types[i]]
                                      ELSE CommunityTypes[types[i]]]]
          IN /\ agents = s.agents
             /\ tech_agent = s.tech_agent
             /\ network = s.network
             /\ params = s.params
             /\ pending = s.pending
             /\ steps = s.steps
             /\ status = s.status
    /\ pre_step_states = <<>>
    /\ rng = NoStream
    /\ twin = NoTwin

AllBanned(c) == \A i \in DOMAIN c : c[i].banned

\* model.step() in a long run.  A run is followed for one full round after
\* the round that began with every community banned: no cycle of that round
\* runs, and every later round repeats it.
LongModelStep ==
    /\ status = "constructed"
    /\ pending = {}
    /\ steps < AbsorbRounds
    /\ steps = 0 \/ ~AllBanned(pre_step_states)
    /\ \E d \in TechDraws(Self) : Apply(model_step(Self, d))
    /\ pre_step_states' = agents
    /\ UNCHANGED <<rng, twin>>

\* One iteration of the loop in a long run.
LongAgentStep ==
    /\ status = "constructed"
    /\ \E id \in pending : \E d \in AbsorbDraws(Self, id) : Apply(agent_turn(Self, id, d))
    /\ UNCHANGED <<pre_step_states, rng, twin>>

NextAbsorb == LongModelStep \/ LongAgentStep

SpecAbsorb == InitAbsorb /\ [][NextAbsorb]_vars

\* C29: every run is absorbed.  A round that ends with some community not
\* banned is one of the first AbsorbRounds - 1 rounds; once every community
\* is banned, no step changes any community's adopted, banned or collapsed
\* flag, wellbeing, infrastructure or history (was_targeted is only cleared,
\* by the Deployer's reset).  On the way there, a cycle that steps without
\* adopting takes at least 2.5 from the wellbeing, and a cycle of an adopter
\* takes 0.4 from the infrastructure.
Absorption ==
    [][/\ (pending' = {} /\ ~AllBanned(agents')) => steps' < AbsorbRounds
       /\ AllBanned(agents) =>
             \A i \in DOMAIN agents :
                /\ agents'[i] = [agents[i] EXCEPT
                                    !.was_targeted = agents'[i].was_targeted]
                /\ agents'[i].was_targeted => agents[i].was_targeted
       /\ \A b \in pending \ pending' :
             Steps(b) =>
                \/ /\ agents'[b].infrastructure_strength = agents[b].infrastructure_strength
                   /\ agents'[b].wellbeing <= agents[b].wellbeing - 25
                \/ agents'[b].infrastructure_strength
                      = agents[b].infrastructure_strength - WearPerRound]_vars

\* The end of the round that absorbs a run, later than any community can
\* last without adopting (27 rounds at 2.5 a round): the last community to
\* be banned had adopted, its infrastructure is eroded, and it is banned
\* without having collapsed.
AbsorptionWitness ==
    /\ RoundRan /\ AllBanned(agents) /\ ~AllBanned(pre_step_states)
    /\ 25 * steps > InitialWellbeing - survival_threshold
    /\ \E i \in DOMAIN agents :
          /\ ~pre_step_states[i].banned /\ pre_step_states[i].adopted
          /\ agents[i].banned /\ ~agents[i].collapsed
          /\ agents[i].infrastructure_strength < BaselineInfrastructure

\* ------------------------------------------------- the dominance at its floor
\* The long runs again, now followed until the Deployer's dominance has come
\* to rest: model.step() is called until a round that began with every
\* community banned has ended with the dominance at the floor 1.0.
FloorModelStep ==
    /\ status = "constructed"
    /\ pending = {}
    /\ steps < FloorRounds
    /\ \/ steps = 0
       \/ ~AllBanned(pre_step_states)
       \/ tech_agent.tech_dominance > 1 * DomScale
    /\ \E d \in TechDraws(Self) : Apply(model_step(Self, d))
    /\ pre_step_states' = agents
    /\ UNCHANGED <<rng, twin>>

NextFloor == FloorModelStep \/ LongAgentStep

SpecFloor == InitAbsorb /\ [][NextFloor]_vars

\* C31: in every run with at least one community the dominance comes to rest
\* at the floor 1.0.  A round that ends with the dominance above 1.0 is one
\* of the first FloorRounds - 1 rounds; once every community is banned, each
\* Deployer step takes at least 0.21 from the dominance or puts it on the
\* floor; and with every community banned a dominance of 1.0 stays 1.0.
DominanceSettles ==
    [][/\ (pending' = {} /\ tech_agent'.tech_dominance > 1 * DomScale) =>
             steps' < FloorRounds
       /\ (agents # <<>> /\ AllBanned(agents) /\ steps' = steps + 1) =>
             tech_agent'.tech_dominance <=
                Max2(1 * DomScale,
                     tech_agent.tech_dominance - (21 * DomScale) \div 100)
       /\ (agents # <<>> /\ AllBanned(agents)
              /\ tech_agent.tech_dominance = 1 * DomScale) =>
             tech_agent'.tech_dominance = 1 * DomScale]_vars

\* A run that began at dominance 5.0 is at the floor at the end of a round
\* that began with every community banned, one of them not collapsed; the
\* Deployer step of that round is the one that reached the floor, the steps
\* since absorption having taken 0.21 each.
DominanceSettlesWitness ==
    /\ RoundRan /\ AllBanned(pre_step_states)
    /\ params.tech_dominance = 5 * DomScale
    /\ tech_agent.tech_dominance = 1 * DomScale
    /\ \A i \in DOMAIN agents : ~agents[i].collapsed
    /\ 21 * steps > 400

\* ------------------------------------------- the gap of the random policy
\* Community i has a digital_access_score in [0.4, 0.6).
MiddleAccess(i) ==
    /\ agents[i].digital_access_score >= LowAccess
    /\ agents[i].digital_access_score < HighAccess

\* The communities that were neither banned nor collapsed when the running
\* round began: the ones its Deployer step could choose from.
EligibleAtRoundStart ==
    {i \in DOMAIN pre_step_states :
        ~pre_step_states[i].banned /\ ~pre_step_states[i].collapsed}

\* C32: under policy 'random', once the Deployer has stepped, a community
\* with access in [0.4, 0.6) is not in the target set and not targeted, and
\* it is never adopted; and the target set holds at most max(1, floor(n/2))
\* communities, n being the number that were eligible at the Deployer's step.
RandomPolicyGap ==
    (status = "constructed" /\ tech_agent.deployment_policy = "random") =>
       /\ \A i \in DOMAIN agents :
             MiddleAccess(i) =>
                /\ ~agents[i].adopted
                /\ steps > 0 => /\ ~agents[i].was_targeted
                                /\ i \notin Range(tech_agent.deployed_agents)
       /\ steps > 0 =>
             Len(tech_agent.deployed_agents)
                <= Max2(1, Cardinality(EligibleAtRoundStart) \div 2)

\* Under 'random', in a later round with four eligible communities, two of
\* them are targeted while a community of middle access, which has stepped
\* in every round so far without adopting, is not.
RandomPolicyGapWitness ==
    /\ status = "constructed" /\ tech_agent.deployment_policy = "random"
    /\ steps > 1
    /\ Cardinality(EligibleAtRoundStart) = 4
    /\ Len(tech_agent.deployed_agents) = 2
    /\ \E i \in DOMAIN agents :
          /\ MiddleAccess(i) /\ i \notin pending
          /\ Len(agents[i].past_wellbeing) = steps
          /\ ~agents[i].adopted /\ ~agents[i].banned
          /\ ~agents[i].was_targeted

====
